---- MODULE Spec2Model ----
(***************************************************************************)
(* Model of the admission-controlled conversion pipeline of api_server.py: *)
(* the thread pool `executor`, the two gates pdf_processing_lock and       *)
(* vlm_semaphore, and the retry loop of process_pdf_to_markdown.           *)
(*                                                                         *)
(* Every worker thread runs process_pdf_to_markdown one statement group at *)
(* a time; pc[w] names the statement the thread is about to execute.       *)
(* Calls into collaborators (the health endpoint, tempfile, pypdfium2,     *)
(* prepare_env, the VLM client, union_make, shutil) either return or       *)
(* raise; the model draws that outcome with \E.                            *)
(***************************************************************************)
EXTENDS Naturals, Integers, Sequences, FiniteSets, TLC

\* ---------------------------------------------------------------- constants
\* ThreadPoolExecutor(max_workers=2)
max_workers == 2

\* threading.Semaphore(2)
vlm_permits == 2

\* max_retries = 2 in process_pdf_to_markdown
max_retries == 2

\* ------------------------------------------------------------------- bounds
\* requests submitted to the pool in Spec
NumRequests == 3

\* requests submitted in the burst of SpecLive
NumBurst == 5

\* concurrent callers of process_pdf_to_markdown in SpecGates: the smallest
\* burst that exceeds the permits of vlm_semaphore
NumCallers == vlm_permits + 1

\* requests run one after the other in SpecRetry
NumSerial == 2

\* polls of wait_for_vlm_service before max_wait has elapsed
MaxPolls == 2

\* -------------------------------------------------------------------- state
VARIABLES
    threads,              \* ids of the threads that run process_pdf_to_markdown
    total,                \* number of requests the clients will submit
    tracking,             \* whether the per-attempt log is kept
    submitted,            \* number of requests submitted so far
    queue,                \* executor's work queue: submitted, not yet started
    response,             \* response[r]: what convert_pdf_to_markdown answered
    pdf_processing_lock,  \* TRUE when the threading.Lock is held
    vlm_semaphore,        \* the semaphore's counter: permits left
    pc,                   \* pc[w]: the statement thread w is at
    req,                  \* req[w]: the request thread w is processing (0: none)
    attempt,              \* attempt[w]: the loop variable of the retry loop
    temp_dir,             \* temp_dir[w]: None or the directory of the request
    dir_exists,           \* dir_exists[w]: os.path.exists(temp_dir)
    polls,                \* polls[w]: iterations of wait_for_vlm_service so far
    ret,                  \* ret[w]: what process_pdf_to_markdown returns
    released,             \* released[w]: shutil.rmtree calls made for the request
    created,              \* created[w]: directories tempfile.mkdtemp made for it
    log                   \* log[w]: outcome of each attempt of the request so far

vars == <<threads, total, tracking, submitted, queue, response,
          pdf_processing_lock, vlm_semaphore, pc, req, attempt, temp_dir,
          dir_exists, polls, ret, released, created, log>>

gates == <<pdf_processing_lock, vlm_semaphore>>

config == <<threads, total, tracking>>

boundary == <<submitted, queue, response>>

\* temp_dir = None
None == 0

\* the messages of the exceptions the steps of an attempt can raise
Errors == {"unavailable", "mkdtemp", "local", "env", "remote", "markdown"}

\* values of ret[w]: nothing returned yet, Python's None, the two dicts
Unset == [tag |-> "unset"]

PyNone == [tag |-> "None"]

Success == [tag |-> "dict", success |-> TRUE]

Failure(e) == [tag |-> "dict", success |-> FALSE, error |-> e]

IsRecord(x) == x.tag = "dict"

IsSuccess(x) == IsRecord(x) /\ x.success

IsFailure(x) == IsRecord(x) /\ ~x.success

\* ------------------------------------------------------------ worker helpers
\* the log with the outcome of the current attempt appended
Logged(w, outcome) ==
    IF tracking THEN [log EXCEPT ![w] = Append(@, outcome)] ELSE log

\* seeded fault: `<=` for `<`, the handler retries after the last attempt too
RetriesRemainInclusive(w) == attempt[w] <= max_retries

\* line 129: `if attempt < max_retries` of the inner handler
RetriesRemain(w) == attempt[w] < max_retries

\* seeded fault: `<=` for `<`, the last attempt waits for health instead of raising
ProbeRetriesRemainInclusive(w) == attempt[w] <= max_retries

\* line 78: `if attempt < max_retries` after an unhealthy probe
ProbeRetriesRemain(w) == attempt[w] < max_retries

\* seeded fault: the lock admits a thread while it is held
CanAcquireLockAlways == TRUE

\* line 90: threading.Lock.acquire() returns only when the lock is free
CanAcquireLock == ~pdf_processing_lock

\* seeded fault: the semaphore admits one thread more than it has permits
CanAcquirePermitOffByOne == vlm_semaphore >= 0

\* line 102: threading.Semaphore.acquire() returns only when a permit is left
CanAcquirePermit == vlm_semaphore > 0

\* seeded fault: the remote phase is nested inside the lock's block, so the
\* lock is still held when the body of the local phase has returned
LockExitNested(raised) == ~raised

\* seeded fault: the lock stays held when the body raised
LockExitLeak(raised) == raised

\* lines 90-94: the lock after leaving `with pdf_processing_lock:`, whether
\* the body raised or not
LockExit(raised) == FALSE

\* seeded fault: the permit is given back only when the call returned
SemExitLeak(raised) == IF raised THEN vlm_semaphore ELSE vlm_semaphore + 1

\* lines 102-110: the counter after leaving `with vlm_semaphore:`, whether
\* the body raised or not
SemExit(raised) == vlm_semaphore + 1

\* seeded fault: the scratch area is removed only after a success
ReleaseWantedOnSuccess(w) ==
    temp_dir[w] # None /\ dir_exists[w] /\ IsSuccess(ret[w])

\* seeded fault: every attempt makes a directory of its own
NeedsScratchAlways(w) == TRUE

\* line 85: `if temp_dir is None`
NeedsScratch(w) == temp_dir[w] = None

\* line 147: `if temp_dir and os.path.exists(temp_dir)`
ReleaseWanted(w) == temp_dir[w] # None /\ dir_exists[w]

\* seeded fault: a failure of rmtree replaces the result
RmtreeDoneRaises(w, rmtree_ok) ==
    IF rmtree_ok THEN ret[w] ELSE Failure("rmtree")

\* lines 148-151: what the function returns once rmtree returned or raised:
\* `except: pass` swallows the failure
RmtreeDone(w, rmtree_ok) == ret[w]

\* seeded fault: the attempt counter is one counter shared by all threads
NextIterationShared(w) ==
    /\ attempt' = [v \in threads |-> attempt[w] + 1]
    /\ pc' = [pc EXCEPT ![w] = "probe"]
    /\ ret' = ret

\* `continue` and the for statement: the next value of range(max_retries + 1),
\* or the end of the loop, after which the function ends without a return
NextIteration(w) ==
    IF attempt[w] + 1 < max_retries + 1
    THEN /\ attempt' = [attempt EXCEPT ![w] = @ + 1]
         /\ pc' = [pc EXCEPT ![w] = "probe"]
         /\ ret' = ret
    ELSE /\ attempt' = attempt
         /\ pc' = [pc EXCEPT ![w] = "finally"]
         /\ ret' = [ret EXCEPT ![w] = PyNone]

\* seeded fault: an attempt rejected by the probe does not count, the same
\* attempt is probed again after the wait
AfterHealthWaitSameAttempt(w) ==
    /\ pc' = [pc EXCEPT ![w] = "probe"]
    /\ UNCHANGED <<attempt, ret>>

\* seeded fault: the request is given up when the wait is over
AfterHealthWaitAbort(w) ==
    /\ pc' = [pc EXCEPT ![w] = "finally"]
    /\ ret' = [ret EXCEPT ![w] = Failure("unavailable")]
    /\ attempt' = attempt

\* lines 79-80: the result of wait_for_vlm_service is dropped; continue
AfterHealthWait(w) == NextIteration(w)

\* the message of the exception an attempt with the logged outcome o raised
ErrorOf(o) == IF o = "unhealthy" THEN "unavailable" ELSE o

\* seeded fault: the failure record carries the error of the first failed
\* attempt of the request instead of the one just raised
RaiseFirstError(w, e) ==
    IF RetriesRemain(w)
    THEN /\ pc' = [pc EXCEPT ![w] = "backoff"]
         /\ ret' = ret
    ELSE /\ pc' = [pc EXCEPT ![w] = "finally"]
         /\ ret' = [ret EXCEPT ![w] =
                      Failure(IF log[w] = <<>> THEN e
                              ELSE ErrorOf(log[w][1]))]

\* seeded fault: the handler retries at once, without the sleep
RaiseNoBackoff(w, e) ==
    IF RetriesRemain(w)
    THEN /\ pc' = [pc EXCEPT ![w] = "probe"]
         /\ ret' = ret
    ELSE /\ pc' = [pc EXCEPT ![w] = "finally"]
         /\ ret' = [ret EXCEPT ![w] = Failure(e)]

\* lines 127-143: a statement of the inner try block raises e. The inner
\* handler goes to the backoff sleep while attempts remain; on the last
\* attempt it re-raises and the outer handler returns the failure record
Raise(w, e) ==
    IF RetriesRemain(w)
    THEN /\ pc' = [pc EXCEPT ![w] = "backoff"]
         /\ ret' = ret
    ELSE /\ pc' = [pc EXCEPT ![w] = "finally"]
         /\ ret' = [ret EXCEPT ![w] = Failure(e)]

\* seeded fault: the continue of line 80 and the raise of line 82 are missing,
\* the attempt goes on after an unhealthy probe
OnUnhealthyProceed(w) ==
    /\ pc' = [pc EXCEPT ![w] = "lock"]
    /\ ret' = ret

\* lines 77-82: the probe of this attempt was unhealthy: wait for the service
\* and continue, or raise when this was the last attempt
OnUnhealthy(w) ==
    IF ProbeRetriesRemain(w)
    THEN /\ pc' = [pc EXCEPT ![w] = "wait"]
         /\ ret' = ret
    ELSE Raise(w, "unavailable")

\* seeded fault: the success record is handed back before the cleanup ran
SucceedSkipCleanup(w) ==
    /\ ret' = [ret EXCEPT ![w] = Success]
    /\ pc' = [pc EXCEPT ![w] = "return"]
    /\ attempt' = attempt

\* seeded fault: the return is missing and the loop goes on
SucceedAndContinue(w) == NextIteration(w)

\* lines 117-125: the attempt went through; return the success record
Succeed(w) ==
    /\ ret' = [ret EXCEPT ![w] = Success]
    /\ pc' = [pc EXCEPT ![w] = "finally"]
    /\ attempt' = attempt

\* ------------------------------------------------------------------ actions
\* Each action is the run of statements of one thread up to its next blocking
\* point or its next access to a gate.

\* lines 187-194: convert_pdf_to_markdown hands the request to the pool
Submit ==
    /\ submitted < total
    /\ submitted' = submitted + 1
    /\ queue' = Append(queue, submitted + 1)
    /\ UNCHANGED <<config, response, gates, pc, req, attempt, temp_dir,
                   dir_exists, polls, ret, released, created, log>>

\* seeded fault: the pool hands out the newest work item first
TakeNewest(q) == <<q[Len(q)], SubSeq(q, 1, Len(q) - 1)>>

\* line 28: the work queue of ThreadPoolExecutor is a FIFO queue: the item a
\* free thread takes and the queue it leaves
Take(q) == <<Head(q), Tail(q)>>

\* an idle pool thread takes the oldest work item and enters
\* process_pdf_to_markdown (lines 65-73)
Dispatch(w) ==
    /\ pc[w] = "idle"
    /\ queue # <<>>
    /\ req' = [req EXCEPT ![w] = Take(queue)[1]]
    /\ queue' = Take(queue)[2]
    /\ temp_dir' = [temp_dir EXCEPT ![w] = None]
    /\ attempt' = [attempt EXCEPT ![w] = 0]
    /\ pc' = [pc EXCEPT ![w] = "probe"]
    /\ UNCHANGED <<config, submitted, response, gates, dir_exists, polls,
                   ret, released, created, log>>

\* lines 76-86: check_vlm_service() at the top of an attempt (any failure of
\* the probe is an unhealthy answer, it never raises), then the creation of the
\* scratch area by the first attempt that gets that far
Probe(w) ==
    /\ pc[w] = "probe"
    /\ \E healthy \in BOOLEAN, mkdtemp_ok \in BOOLEAN :
         IF ~healthy
         THEN /\ mkdtemp_ok
              /\ log' = Logged(w, "unhealthy")
              /\ OnUnhealthy(w)
              /\ UNCHANGED <<temp_dir, dir_exists, created>>
         ELSE IF ~NeedsScratch(w)
         THEN /\ mkdtemp_ok
              /\ pc' = [pc EXCEPT ![w] = "lock"]
              /\ UNCHANGED <<temp_dir, dir_exists, created, ret, log>>
         ELSE IF mkdtemp_ok
         THEN /\ temp_dir' = [temp_dir EXCEPT ![w] = req[w]]
              /\ dir_exists' = [dir_exists EXCEPT ![w] = TRUE]
              /\ created' = [created EXCEPT ![w] = @ + 1]
              /\ pc' = [pc EXCEPT ![w] = "lock"]
              /\ UNCHANGED <<ret, log>>
         ELSE /\ Raise(w, "mkdtemp")
              /\ log' = Logged(w, "mkdtemp")
              /\ UNCHANGED <<temp_dir, dir_exists, created>>
    /\ UNCHANGED <<config, boundary, gates, req, attempt, polls, released>>

\* lines 52-58: one iteration of the polling loop of wait_for_vlm_service;
\* its result is dropped by the caller (line 79), which continues
WaitPoll(w) ==
    /\ pc[w] = "wait"
    /\ \E healthy \in BOOLEAN :
         IF healthy \/ polls[w] + 1 >= MaxPolls
         THEN /\ AfterHealthWait(w)
              /\ polls' = [polls EXCEPT ![w] = 0]
         ELSE /\ polls' = [polls EXCEPT ![w] = @ + 1]
              /\ UNCHANGED <<pc, attempt, ret>>
    /\ UNCHANGED <<config, boundary, gates, req, temp_dir, dir_exists,
                   released, created, log>>

\* line 90: `with pdf_processing_lock:` blocks until the lock is free
AcquireLock(w) ==
    /\ pc[w] = "lock"
    /\ CanAcquireLock
    /\ pdf_processing_lock' = TRUE
    /\ pc' = [pc EXCEPT ![w] = "local"]
    /\ UNCHANGED <<config, boundary, vlm_semaphore, req, attempt, temp_dir,
                   dir_exists, polls, ret, released, created, log>>

\* lines 91-98: the local phase; leaving the with block releases the lock
\* whether the body returned or raised; then prepare_env and the image
\* writer, outside both gates
LocalPhase(w) ==
    /\ pc[w] = "local"
    /\ \E outcome \in {"ok", "local", "env"} :
         /\ pdf_processing_lock' = LockExit(outcome = "local")
         /\ IF outcome = "ok"
            THEN /\ pc' = [pc EXCEPT ![w] = "sem"]
                 /\ UNCHANGED <<ret, log>>
            ELSE /\ Raise(w, outcome)
                 /\ log' = Logged(w, outcome)
    /\ UNCHANGED <<config, boundary, vlm_semaphore, req, attempt, temp_dir,
                   dir_exists, polls, released, created>>

\* line 102: `with vlm_semaphore:` blocks until a permit is left
AcquireSem(w) ==
    /\ pc[w] = "sem"
    /\ CanAcquirePermit
    /\ vlm_semaphore' = vlm_semaphore - 1
    /\ pc' = [pc EXCEPT ![w] = "remote"]
    /\ UNCHANGED <<config, boundary, pdf_processing_lock, req, attempt,
                   temp_dir, dir_exists, polls, ret, released, created, log>>

\* lines 103-125: the remote phase; leaving the with block gives the permit
\* back whether the call returned or raised; then markdown generation and the
\* return of the success record
RemotePhase(w) ==
    /\ pc[w] = "remote"
    /\ \E outcome \in {"ok", "remote", "markdown"} :
         /\ vlm_semaphore' = SemExit(outcome = "remote")
         /\ log' = Logged(w, outcome)
         /\ IF outcome = "ok"
            THEN Succeed(w)
            ELSE Raise(w, outcome) /\ attempt' = attempt
    /\ UNCHANGED <<config, boundary, pdf_processing_lock, req, temp_dir,
                   dir_exists, polls, released, created>>

\* lines 131-132: time.sleep(2) is over; continue
Backoff(w) ==
    /\ pc[w] = "backoff"
    /\ NextIteration(w)
    /\ UNCHANGED <<config, boundary, gates, req, temp_dir, dir_exists, polls,
                   released, created, log>>

\* lines 145-151: the finally block; a failure of rmtree is swallowed
Finally(w) ==
    /\ pc[w] = "finally"
    /\ IF ReleaseWanted(w)
       THEN /\ released' = [released EXCEPT ![w] = @ + 1]
            /\ \E rmtree_ok \in BOOLEAN :
                 /\ dir_exists' = [dir_exists EXCEPT ![w] = ~rmtree_ok]
                 /\ ret' = [ret EXCEPT ![w] = RmtreeDone(w, rmtree_ok)]
       ELSE UNCHANGED <<released, dir_exists, ret>>
    /\ pc' = [pc EXCEPT ![w] = "return"]
    /\ UNCHANGED <<config, boundary, gates, req, attempt, temp_dir, polls,
                   created, log>>

\* lines 189-216: the future resolves and convert_pdf_to_markdown answers 200
\* for a success record and 500 otherwise; the thread goes back to the pool
Return(w) ==
    /\ pc[w] = "return"
    /\ response' = [response EXCEPT ![req[w]] =
                      IF IsSuccess(ret[w]) THEN "200" ELSE "500"]
    /\ pc' = [pc EXCEPT ![w] = "idle"]
    /\ req' = [req EXCEPT ![w] = 0]
    /\ attempt' = [attempt EXCEPT ![w] = 0]
    /\ temp_dir' = [temp_dir EXCEPT ![w] = None]
    /\ dir_exists' = [dir_exists EXCEPT ![w] = FALSE]
    /\ ret' = [ret EXCEPT ![w] = Unset]
    /\ released' = [released EXCEPT ![w] = 0]
    /\ created' = [created EXCEPT ![w] = 0]
    /\ log' = [log EXCEPT ![w] = <<>>]
    /\ UNCHANGED <<config, submitted, queue, gates, polls>>

\* the state after the module is loaded, for a pool of n threads that will be
\* sent m requests, the first b of them already handed to the pool
Start(n, m, b, t) ==
    /\ threads = 1 .. n
    /\ total = m
    /\ tracking = t
    /\ submitted = b
    /\ queue = [i \in 1 .. b |-> i]
    /\ response = [r \in 1 .. m |-> "none"]
    /\ pdf_processing_lock = FALSE
    /\ vlm_semaphore = vlm_permits
    /\ pc = [w \in 1 .. n |-> "idle"]
    /\ req = [w \in 1 .. n |-> 0]
    /\ attempt = [w \in 1 .. n |-> 0]
    /\ temp_dir = [w \in 1 .. n |-> None]
    /\ dir_exists = [w \in 1 .. n |-> FALSE]
    /\ polls = [w \in 1 .. n |-> 0]
    /\ ret = [w \in 1 .. n |-> Unset]
    /\ released = [w \in 1 .. n |-> 0]
    /\ created = [w \in 1 .. n |-> 0]
    /\ log = [w \in 1 .. n |-> <<>>]

Init == Start(max_workers, NumRequests, 0, FALSE)

\* the burst: all requests are in the queue before a thread takes the first
InitLive == Start(max_workers, NumBurst, NumBurst, FALSE)

InitGates == Start(NumCallers, NumCallers, 0, FALSE)

InitRetry == Start(1, NumSerial, 0, TRUE)

\* one step of thread w
Step(w) ==
    \/ Dispatch(w)
    \/ Probe(w)
    \/ WaitPoll(w)
    \/ AcquireLock(w)
    \/ LocalPhase(w)
    \/ AcquireSem(w)
    \/ RemotePhase(w)
    \/ Backoff(w)
    \/ Finally(w)
    \/ Return(w)

Next ==
    \/ Submit
    \/ \E w \in threads : Step(w)

Spec == Init /\ [][Next]_vars

SpecGates == InitGates /\ [][Next]_vars

SpecRetry == InitRetry /\ [][Next]_vars

\* the pool working off a burst
NextLive == \E w \in threads : Step(w)

\* every thread of the pool is an OS thread that keeps being scheduled, and
\* every call it makes terminates
Fairness == \A w \in 1 .. max_workers : WF_vars(Step(w))

SpecLive == InitLive /\ [][NextLive]_vars /\ Fairness

\* ------------------------------------------------------------------- claims
\* the threads at statement p
At(p) == {w \in threads : pc[w] = p}

\* C1: in every reachable state at most one thread is inside the block guarded
\* by pdf_processing_lock, whatever the number of submitted requests.
C1_MutualExclusion == Cardinality(At("local")) <= 1

\* C1 witness: one thread is inside the local phase while another one waits
\* for the lock.
C1_Witness == At("local") # {} /\ At("lock") # {}

\* C2: for a burst larger than the number of permits, the threads inside the
\* remote phase are never more than N = 2.
C2_PermitBound == Cardinality(At("remote")) <= vlm_permits

\* C2 witness: two threads are inside the remote phase and a third one waits
\* for a permit.
C2_Witness == Cardinality(At("remote")) = vlm_permits /\ At("sem") # {}
\* the threads past the last attempt of their request
Finished == At("finally") \cup At("return")

\* C3: process_pdf_to_markdown returns exactly one result record, a success
\* record or a failure record with an error message: a thread about to return
\* holds a record, the record is produced when the retry loop ends and is not
\* replaced afterwards, and each request is answered once.
C3_OneRecord ==
    /\ [](\A w \in threads :
            /\ w \in Finished <=> ret[w] # Unset
            /\ pc[w] = "return" =>
                 \/ ret[w] = Success
                 \/ \E e \in Errors : ret[w] = Failure(e))
    /\ [][/\ \A w \in threads :
               ret[w] # Unset /\ pc'[w] # "idle" => ret'[w] = ret[w]
          /\ \A r \in 1 .. total :
               response[r] # "none" => response'[r] = response[r]]_vars

\* C3 witness: a thread is about to return the failure record of a request
\* whose three attempts all failed.
C3_Witness ==
    \E w \in threads :
        pc[w] = "return" /\ IsFailure(ret[w]) /\ attempt[w] = max_retries

\* C4 as claimed: every request makes exactly one release attempt.
C4_ExactlyOneRelease ==
    \A w \in threads : pc[w] = "return" => released[w] = 1

\* C4 as amended: a request makes exactly one release attempt if it created a
\* scratch area and none if it never created one, however many attempts it
\* took; no release is attempted before the request has its outcome.
C4_ReleaseIffCreated ==
    \A w \in threads :
        /\ pc[w] = "return" =>
             released[w] = IF temp_dir[w] # None THEN 1 ELSE 0
        /\ pc[w] # "return" => released[w] = 0

\* C4 witness: a request whose three attempts all failed returns after its
\* one release attempt.
C4_Witness ==
    \E w \in threads :
        /\ pc[w] = "return" /\ released[w] = 1
        /\ attempt[w] = max_retries /\ IsFailure(ret[w])

\* all probes of the request of thread w were unhealthy so far
AllUnhealthy(w) == \A i \in DOMAIN log[w] : log[w][i] = "unhealthy"

\* C5: a request whose probe was unhealthy at the start of every attempt
\* ends after exactly max_retries + 1 = 3 attempts with the failure record
\* "VLM service is unavailable after retries".
C5_Unavailable ==
    \A w \in threads :
        w \in Finished /\ AllUnhealthy(w) =>
            /\ Len(log[w]) = max_retries + 1
            /\ ret[w] = Failure("unavailable")

\* C5 witness: a request returns after three unhealthy probes.
C5_Witness ==
    \E w \in threads :
        pc[w] = "return" /\ AllUnhealthy(w) /\ Len(log[w]) = max_retries + 1

\* C6 as claimed: an attempt whose local and remote phase both succeeded is
\* the last one and the result is Success.
C6_BothPhasesSucceed ==
    \A w \in threads : \A i \in DOMAIN log[w] :
        log[w][i] \in {"ok", "markdown"} =>
            i = Len(log[w]) /\ w \in Finished /\ ret[w] = Success

\* C6 as amended: the first attempt in which both phases and the markdown
\* generation that follows them succeed ends the retry loop with Success and
\* no further attempt is started; so a request whose remote phase failed on
\* attempt 1 and whose attempt 2 went through ends Success after 2 attempts.
C6_FirstSuccessEnds ==
    \A w \in threads :
        /\ \A i \in DOMAIN log[w] :
             log[w][i] = "ok" =>
                 /\ i = Len(log[w]) /\ i = attempt[w] + 1
                 /\ w \in Finished /\ ret[w] = Success
        /\ ret[w] = Success =>
             log[w] # <<>> /\ log[w][Len(log[w])] = "ok"
        /\ Len(log[w]) >= 2 /\ log[w][1] = "remote" /\ log[w][2] = "ok" =>
             Len(log[w]) = 2 /\ ret[w] = Success

\* C6 witness: the remote phase failed on attempt 1, attempt 2 went through
\* and the request returns.
C6_Witness ==
    \E w \in threads : pc[w] = "return" /\ log[w] = <<"remote", "ok">>

\* C7: under fair scheduling every request of the burst of 5 sent to the pool
\* of 2 is eventually answered.
C7_AllAnswered == <>(\A r \in 1 .. total : response[r] # "none")

\* C7 witness: all requests of the burst are answered, the last one after it
\* had to wait in the queue.
C7_Witness ==
    /\ total > max_workers
    /\ submitted = total
    /\ \A r \in 1 .. total : response[r] # "none"

\* C8 as claimed: a failure of tempfile.mkdtemp ends the request at once with
\* a failure record; no backoff sleep and no further attempt follow it.
C8_MkdtempNotRetried ==
    \A w \in threads : \A i \in DOMAIN log[w] :
        log[w][i] = "mkdtemp" =>
            i = Len(log[w]) /\ w \in Finished /\ IsFailure(ret[w])

\* C9: the release step never changes the outcome: a thread leaves the finally
\* block to the return with the record it entered it with, whether rmtree
\* failed or not.
C9_CleanupContained ==
    [][\A w \in threads :
         pc[w] = "finally" /\ pc'[w] # "finally" =>
             pc'[w] = "return" /\ ret'[w] = ret[w]]_vars

\* C9 witness: rmtree failed (the directory is still there) and the thread
\* returns the success record.
C9_Witness ==
    \E w \in threads :
        /\ pc[w] = "return" /\ released[w] = 1 /\ dir_exists[w]
        /\ ret[w] = Success

\* the state of the request thread w is processing
Locals(w) ==
    <<pc[w], req[w], attempt[w], temp_dir[w], dir_exists[w], polls[w],
      ret[w], released[w], created[w], log[w]>>

\* C10: every request starts with attempt counter 0 and no scratch area,
\* whatever ran before or runs beside it; a step of one thread changes no
\* other thread's attempt counter, scratch area or result, and a request is
\* answered only by the thread that processed it.
C10_NoLeakage ==
    [][/\ \A w \in threads :
            pc[w] = "idle" /\ pc'[w] # "idle" =>
                /\ pc'[w] = "probe" /\ attempt'[w] = 0
                /\ temp_dir'[w] = None /\ ~dir_exists'[w]
                /\ ret'[w] = Unset /\ released'[w] = 0 /\ log'[w] = <<>>
       /\ \A w \in threads : \A v \in threads \ {w} :
            Locals(w)' # Locals(w) => Locals(v)' = Locals(v)
       /\ \A r \in 1 .. total :
            response'[r] # response[r] =>
                \E w \in threads :
                    /\ req[w] = r /\ pc[w] = "return"
                    /\ \A v \in threads \ {w} : Locals(v)' = Locals(v)]_vars

\* C10 witness: a request starts afresh on a thread after an earlier request
\* failed terminally, while the other thread is in the middle of its retries.
C10_Witness ==
    \E w \in threads : \E v \in threads \ {w} :
        /\ pc[w] = "probe" /\ attempt[w] = 0 /\ temp_dir[w] = None
        /\ \E r \in 1 .. total : r < req[w] /\ response[r] = "500"
        /\ pc[v] = "backoff" /\ attempt[v] > 0 /\ temp_dir[v] # None
\* request r was taken by a thread of the pool
Started(r) == response[r] # "none" \/ \E w \in threads : req[w] = r

\* C11: at most 2 requests are being processed at any instant, and requests
\* leave the queue in the order they were submitted (requests are numbered in
\* that order): no request that is still queued was submitted before one
\* that has started.
C11_FifoAdmission ==
    /\ Cardinality({w \in threads : pc[w] # "idle"}) <= 2
    /\ \A i \in DOMAIN queue :
         /\ ~Started(queue[i])
         /\ \A r \in 1 .. total : Started(r) => r < queue[i]
         /\ \A j \in DOMAIN queue : i < j => queue[i] < queue[j]

\* C11 witness: both threads are busy, one of them with a request that had to
\* wait in the queue, and two more requests are queued behind it.
C11_Witness ==
    /\ \A w \in threads : pc[w] # "idle"
    /\ \E w \in threads : req[w] > max_workers
    /\ Len(queue) >= 2
\* C12: across all attempts of a request at most one scratch area is created
\* (later attempts reuse it), and a scratch area that was created gets exactly
\* one destruction attempt, made when the request finishes.
C12_ScratchLifecycle ==
    \A w \in threads :
        /\ created[w] <= 1
        /\ created[w] = 1 <=> temp_dir[w] # None
        /\ pc[w] = "return" => released[w] = created[w]
        /\ pc[w] # "return" => released[w] = 0

\* C12 witness: the scratch area made by attempt 1 served three attempts and
\* the request returns after its one destruction attempt.
C12_Witness ==
    \E w \in threads :
        /\ pc[w] = "return" /\ created[w] = 1 /\ released[w] = 1
        /\ log[w] = <<"remote", "markdown", "ok">>
\* the attempts of the request of thread w whose outcome is in S
Attempts(w, S) == {i \in DOMAIN log[w] : log[w][i] \in S}

\* C13: a request never takes more than max_retries + 1 = 3 attempts; an
\* attempt that stops at an unhealthy probe uses up one of them like an attempt
\* whose phase failed, so the probe-rejected attempts and the attempts that
\* executed a phase are at most 3 together.
C13_RetryBudget ==
    \A w \in threads :
        /\ Len(log[w]) <= 3
        /\ Len(log[w]) \in {attempt[w], attempt[w] + 1}
        /\ Cardinality(Attempts(w, {"unhealthy"}))
             + Cardinality(Attempts(w, {"local", "env", "remote",
                                        "markdown", "ok"})) <= 3

\* C13 witness: the budget of a request was used up by two probe-rejected
\* attempts and one attempt whose local phase failed.
C13_Witness ==
    \E w \in threads :
        pc[w] = "return" /\ log[w] = <<"unhealthy", "local", "unhealthy">>
\* C14: the gates are given back on every exit path: the lock is held exactly
\* when one thread is inside the local phase and the permits taken are as
\* many as the threads inside the remote phase, so a thread in the backoff
\* sleep, in the health wait or finished holds neither.
C14_GatesMatch ==
    /\ Cardinality(At("local")) = IF pdf_processing_lock THEN 1 ELSE 0
    /\ Cardinality(At("remote")) = vlm_permits - vlm_semaphore

\* C14 witness: a thread is in the backoff sleep after a raise while another
\* one holds the lock and a third one holds the only permit taken.
C14_Witness ==
    /\ At("backoff") # {} /\ At("local") # {} /\ At("remote") # {}
    /\ pdf_processing_lock
    /\ vlm_semaphore = vlm_permits - 1
\* C15: a request ends in a failure record only when the attempt with index
\* max_retries failed, and the record carries the error of that last attempt,
\* whatever the errors of the attempts before it were.
C15_LastError ==
    \A w \in threads :
        w \in Finished =>
            /\ log[w] # <<>>
            /\ IsFailure(ret[w]) <=> log[w][Len(log[w])] # "ok"
            /\ IsFailure(ret[w]) =>
                 /\ Len(log[w]) = max_retries + 1
                 /\ attempt[w] = max_retries
                 /\ ret[w].error = ErrorOf(log[w][Len(log[w])])

\* C15 witness: three attempts failed with three different errors and the
\* request returns the failure record of the third.
C15_Witness ==
    \E w \in threads :
        /\ pc[w] = "return"
        /\ log[w] = <<"local", "remote", "markdown">>
        /\ ret[w] = Failure("markdown")
\* the outcome of the latest attempt of the request of thread w
LastOutcome(l) == IF l = <<>> THEN "none" ELSE l[Len(l)]

\* C16: after a phase failure with retries remaining the thread is in the
\* backoff sleep with its attempt counter unchanged; the sleep ends with the
\* counter increased by exactly one and the probe of the next attempt; and no
\* attempt that follows a failed phase starts from anywhere but the sleep.
C16_BackoffBetween ==
    [][\A w \in threads :
         /\ (/\ log'[w] # log[w]
             /\ LastOutcome(log'[w]) \in {"local", "env", "remote", "markdown"}
             /\ attempt[w] < max_retries)
              => pc'[w] = "backoff" /\ attempt'[w] = attempt[w]
         /\ pc[w] = "backoff" /\ pc'[w] # "backoff"
              => pc'[w] = "probe" /\ attempt'[w] = attempt[w] + 1
         /\ (/\ pc'[w] = "probe" /\ pc[w] # "probe"
             /\ LastOutcome(log[w]) \notin {"none", "unhealthy"})
              => pc[w] = "backoff"]_vars

\* C16 witness: the remote phase of attempt 1 failed, the sleep is over and
\* the thread is at the probe of attempt 2.
C16_Witness ==
    \E w \in threads :
        pc[w] = "probe" /\ attempt[w] = 1 /\ log[w] = <<"remote">>
\* C17: a health wait never ends a request. After an unhealthy probe with
\* retries remaining the thread waits, for a bounded number of polls, and then
\* starts the next attempt whether the backend recovered or not; the
\* backend-unavailable failure is produced only by an unhealthy probe at the
\* start of attempt max_retries, and that attempt does not wait.
C17_WaitFallsThrough ==
    /\ [](\A w \in threads :
            /\ pc[w] = "wait" =>
                 /\ attempt[w] < max_retries /\ polls[w] < MaxPolls
                 /\ LastOutcome(log[w]) = "unhealthy"
            /\ ret[w] = Failure("unavailable") =>
                 /\ attempt[w] = max_retries
                 /\ LastOutcome(log[w]) = "unhealthy"
                 /\ Len(log[w]) = max_retries + 1)
    /\ [][\A w \in threads :
            /\ pc[w] = "wait" /\ pc'[w] # "wait" =>
                 pc'[w] = "probe" /\ attempt'[w] = attempt[w] + 1
            /\ (log'[w] # log[w] /\ LastOutcome(log'[w]) = "unhealthy") =>
                 IF attempt[w] < max_retries
                 THEN pc'[w] = "wait"
                 ELSE /\ pc'[w] = "finally"
                      /\ ret'[w] = Failure("unavailable")]_vars

\* C17 witness: before the last attempt the thread is at the last poll of its
\* health wait: if the backend is still unhealthy the wait has failed.
C17_Witness ==
    \E w \in threads :
        /\ pc[w] = "wait" /\ polls[w] = MaxPolls - 1
        /\ attempt[w] = max_retries - 1
\* C18: once the outcome of a request is determined the thread only runs the
\* cleanup and returns: no probe, gate acquisition or backoff follows, the
\* record stays as it is, the release attempt is made in between, and a
\* request is answered only by a thread that is past the cleanup, so no
\* answered request has a release pending.
C18_TerminalFinal ==
    /\ [](\A w \in threads :
            /\ ret[w] # Unset => w \in Finished
            /\ pc[w] = "return" => released[w] = created[w]
            /\ req[w] # 0 => response[req[w]] = "none")
    /\ [][\A w \in threads :
            /\ pc[w] = "finally" => pc'[w] \in {"finally", "return"}
            /\ pc[w] = "return" => pc'[w] \in {"return", "idle"}
            /\ w \in Finished /\ pc'[w] # "idle" => ret'[w] = ret[w]
            /\ released'[w] > released[w] =>
                 pc[w] = "finally" /\ ret[w] # Unset
            /\ (req[w] # 0 /\ response'[req[w]] # "none") =>
                 pc[w] = "return" /\ pc'[w] = "idle"]_vars

\* C18 witness: one request has been answered and its thread has moved on;
\* the outcome of the next request is determined and its cleanup is about to
\* run before it is handed back.
C18_Witness ==
    \E w \in threads :
        /\ pc[w] = "finally" /\ ret[w] = Success /\ released[w] = 0
        /\ created[w] = 1
        /\ \E r \in 1 .. total : r < req[w] /\ response[r] = "200"
\* C19: within one attempt the scratch area is created and the gates are
\* approached only after the probe of that attempt was healthy, and the permit
\* is requested only after the local phase of that attempt returned; an attempt
\* whose probe was unhealthy ends there: it changes neither gate, creates no
\* scratch area, and goes to the wait or to the final failure.
C19_HealthGated ==
    /\ [](\A w \in threads :
            pc[w] \in {"lock", "local", "sem", "remote"} =>
                /\ Len(log[w]) = attempt[w]
                /\ created[w] = 1)
    /\ [][\A w \in threads :
            /\ (log'[w] # log[w] /\ LastOutcome(log'[w]) = "unhealthy") =>
                 /\ pc[w] = "probe" /\ pc'[w] \in {"wait", "finally"}
                 /\ UNCHANGED <<gates, created, temp_dir, dir_exists>>
            /\ created'[w] > created[w] =>
                 /\ pc[w] = "probe" /\ pc'[w] = "lock" /\ log'[w] = log[w]
            /\ (pc'[w] = "lock" /\ pc[w] # "lock") =>
                 /\ pc[w] = "probe" /\ log'[w] = log[w]
            /\ (pc'[w] = "local" /\ pc[w] # "local") => pc[w] = "lock"
            /\ (pc'[w] = "sem" /\ pc[w] # "sem") =>
                 /\ pc[w] = "local" /\ log'[w] = log[w]
                 /\ attempt'[w] = attempt[w]
            /\ (pc'[w] = "remote" /\ pc[w] # "remote") => pc[w] = "sem"
            /\ gates' # gates =>
                 pc[w] \in {"lock", "local", "sem", "remote"}]_vars

\* C19 witness: the first attempt stopped at an unhealthy probe; the second
\* one passed its probe and its local phase and is inside the remote phase.
C19_Witness ==
    \E w \in threads :
        /\ pc[w] = "remote" /\ attempt[w] = 1
        /\ log[w] = <<"unhealthy">>

\* thread w can take a step
CanStep(w) == ENABLED Step(w)

\* C20: a thread releases the lock when it leaves the local phase, before it
\* asks for a permit, so the lock is held only by a thread inside the local
\* phase and the permits only by threads inside the remote phase: no thread
\* waits for one gate while it holds the other. Whenever a submitted request
\* is unanswered some thread can take a step, and a thread blocked at a gate
\* is blocked by another thread that is inside that gate and can step.
C20_NoNestingNoDeadlock ==
    /\ [](/\ pdf_processing_lock => At("local") # {}
          /\ Cardinality(At("remote")) = vlm_permits - vlm_semaphore
          /\ (\E r \in 1 .. submitted : response[r] = "none") =>
                \E w \in threads : CanStep(w)
          /\ \A w \in threads :
                /\ (pc[w] = "lock" /\ ~CanStep(w)) =>
                     \E v \in At("local") : v # w /\ CanStep(v)
                /\ (pc[w] = "sem" /\ ~CanStep(w)) =>
                     \E v \in At("remote") : v # w /\ CanStep(v))
    /\ [][\A w \in threads :
            /\ (pc[w] = "local" /\ pc'[w] # "local") => ~pdf_processing_lock'
            /\ (pc[w] = "sem" /\ pc'[w] = "remote") =>
                 vlm_semaphore' = vlm_semaphore - 1
                 /\ UNCHANGED pdf_processing_lock]_vars

\* C20 witness: both permits are taken and the lock is held by a thread that
\* will have to wait for a permit; every thread is inside a gate.
C20_Witness ==
    /\ Cardinality(At("remote")) = vlm_permits
    /\ vlm_semaphore = 0
    /\ pdf_processing_lock /\ At("local") # {}
====
